---- MODULE Spec2Model ----
(***************************************************************************)
(* TabulaX backend: the row transformer of the transformation controller  *)
(* (applyTransformationFunction) and the record linkage of the join        *)
(* controller (exactMatchJoin, fuzzyMatchJoin).                            *)
(*                                                                         *)
(* JavaScript values are tagged records.  A plain object (a row) holds a   *)
(* function from its keys to values; key order is not modelled.  Numbers  *)
(* are exact: n is an integer, or n and d the numerator and denominator   *)
(* of a fraction in lowest terms.                                          *)
(***************************************************************************)
EXTENDS Integers, Sequences, FiniteSets, TLC

VARIABLES
  pc,               \* "ready" before the call, "done" after it
  data,             \* applyTransformationFunction: the batch argument
  proc,             \* applyTransformationFunction: the procedure text argument
  results,          \* the returned array
  raised,           \* TRUE iff the call threw to its caller
  errorCount,       \* closed-over counter, part_001:325
  successCount,     \* closed-over counter, part_001:326
  calls,            \* number of times the text's transformRow was invoked
  compiles,         \* number of times new Function(...) was evaluated
  metrics,          \* calculateMetrics: the returned metrics
  matchType,        \* joinDatasets: req.body.matchType
  matchColumns,     \* joinDatasets: req.body.matchColumns
  fuzzyOptions,     \* joinDatasets: { algorithm: fuzzyAlgorithm, threshold: threshold }
  transformedData,  \* the rows handed to the join
  targetData,       \* the target rows handed to the join
  joinedData,       \* the join's joinedData
  stats,            \* the join's stats
  req,              \* joinDatasets: the fields of req.body
  response,         \* joinDatasets: res.status and the error handed to the caller
  datasets,         \* the Dataset collection, by id
  io,               \* how often the handler looked up, read, transformed, joined,
                    \* wrote and stored
  ambient,          \* state outside the invocation that a procedure text can reach
  access,           \* what the procedure text does with it: "none", "reads", "writes"
  first,            \* what the first of two invocations returned and left behind
  engine,           \* which transformer runs: "transformation" or "join"
  rowIndex,         \* the index of the row the loop over the rows is at
  timeoutId,        \* part_003:333: TRUE while the timer of a row is pending
  status,           \* transformation.status of the document in memory
  stored            \* the Transformation document as stored: status and metrics

transformVars ==
  <<data, proc, results, raised, errorCount, successCount, calls, compiles, metrics>>
joinVars == <<matchType, matchColumns, fuzzyOptions, transformedData, targetData, joinedData, stats>>
requestVars == <<req, response, datasets, io>>
runVars == <<ambient, access, first>>
stepVars == <<engine, rowIndex, timeoutId>>
storeVars == <<status, stored>>
laterVars == <<runVars, stepVars, storeVars>>
vars == <<pc, transformVars, joinVars, requestVars, laterVars>>

----------------------------------------------------------------------------
(* JavaScript values *)

Undefined == [t |-> "undefined"]
Null == [t |-> "null"]
Num(n) == [t |-> "number", n |-> n, d |-> 1]
Str(s) == [t |-> "string", s |-> s]
Arr(items) == [t |-> "array", items |-> items]
Obj(f) == [t |-> "object", f |-> f]

EmptyRow == <<>>

\* ToBoolean: the test behind !x, x || y and if (x)
Truthy(v) ==
  CASE v.t = "undefined" -> FALSE
    [] v.t = "null" -> FALSE
    [] v.t = "number" -> v.n # 0
    [] v.t = "string" -> v.s # ""
    [] OTHER -> TRUE

\* typeof v === 'object'
TypeofObject(v) == v.t \in {"null", "array", "object"}

\* the own enumerable properties of an object or array, as a row
Props(v) ==
  CASE v.t = "object" -> v.f
    [] v.t = "array" -> [k \in {ToString(i - 1) : i \in DOMAIN v.items} |->
                           v.items[CHOOSE i \in DOMAIN v.items : ToString(i - 1) = k]]
    [] OTHER -> EmptyRow

\* Object.keys(v)
ObjectKeys(v) == DOMAIN Props(v)

\* Object.fromEntries(Object.keys(o).map(k => [k, '']))
Blanked(keys) == [k \in keys |-> Str("")]

----------------------------------------------------------------------------
(* The procedure text and the rows it is applied to *)

\* What one invocation of the text's transformRow does with a row.
Throw == [kind |-> "throw"]
Return(v) == [kind |-> "return", val |-> v]

RowA == Obj("a" :> Str("x"))
RowAB == Obj(("a" :> Str("y")) @@ ("b" :> Num(1)))
RowC == Obj("c" :> Str("z"))
Rows == {Obj(EmptyRow), RowA, RowAB}

\* The values transformRow may hand back for row r: nothing, a falsy and a
\* truthy scalar, an empty and a non-empty array, the empty record, a fixed
\* record and the row itself.
ReturnValues(r) ==
  {Undefined, Num(0), Num(7), Arr(<<>>), Arr(<<Str("x")>>), Obj(EmptyRow), RowC, r}

Behaviours ==
  {b \in [Rows -> {Throw} \cup {Return(v) : v \in UNION {ReturnValues(r) : r \in Rows}}] :
     \A r \in Rows : b[r] = Throw \/ b[r].val \in ReturnValues(r)}

\* A procedure text, by the properties the code looks at:
\*   isString  typeof text === 'string'                       (part_001:218,221)
\*   blank     text.trim() === ''                             (part_001:221)
\*   declares  text includes 'function|const|let transformRow'(part_001:227-229)
\*   parses    new Function(wrapper) accepts the wrapped text (part_001:322)
\*   top       what running the text at the top of the wrapper does:
\*             "end" it runs to its end, "throws" it throws (so does the tail
\*             `return transformRow(row);` of the generated texts, no `row`
\*             being in scope), "returns" a top-level return statement hands
\*             transformRow itself back in place of the wrapper; "calls" is
\*             the tail `return transformRow(row);` where a `row` is in
\*             scope (part_003:327)
\*   beh       transformRow, as a function of the row
Text(isString, blank, declares, parses, top, beh) ==
  [isString |-> isString, blank |-> blank, declares |-> declares,
   parses |-> parses, top |-> top, beh |-> beh]

WellFormed(beh) == Text(TRUE, FALSE, TRUE, TRUE, "end", beh)

\* behaviours for the texts that never get to run: transformRow throws, hands
\* the row back, or hands a fixed record back
SampleBehaviours ==
  {[r \in Rows |-> Throw], [r \in Rows |-> Return(r)], [r \in Rows |-> Return(RowC)]}

Procedures ==
  UNION {{WellFormed(b), Text(TRUE, FALSE, TRUE, TRUE, "returns", b)} : b \in Behaviours}
    \cup UNION {{Text(TRUE, FALSE, TRUE, TRUE, "throws", b),
                 Text(TRUE, FALSE, TRUE, FALSE, "end", b),
                 Text(TRUE, FALSE, FALSE, TRUE, "end", b),
                 Text(TRUE, TRUE, FALSE, TRUE, "end", b),
                 Text(FALSE, FALSE, FALSE, FALSE, "end", b)} : b \in SampleBehaviours}

----------------------------------------------------------------------------
(* applyTransformationFunction, part_001:211-380 *)

\* mutant: the fallback hands the row back as it is, values and all
createFallbackIdentity(originalRow, given) ==
  IF Truthy(given) THEN given ELSE Obj(EmptyRow)

\* createFallbackTransform(originalRow)(row)
createFallbackTransform(originalRow, given) ==
  IF Truthy(originalRow) /\ TypeofObject(originalRow)
    THEN Obj(Blanked(ObjectKeys(originalRow)))
    ELSE IF Truthy(given) THEN given ELSE Obj(EmptyRow)

\* Object.fromEntries(result.map((val, idx) => [`item${idx}`, val]))
ItemEntries(items) ==
  [k \in {"item" \o ToString(i - 1) : i \in DOMAIN items} |->
     items[CHOOSE i \in DOMAIN items : "item" \o ToString(i - 1) = k]]

\* part_001:256-266: a missing row becomes {}
NormalRow(given) == IF Truthy(given) THEN given ELSE Obj(EmptyRow)

\* part_001:269-285: the call of transformRow inside its fault boundary
GuardedCall(p, r) ==
  IF p.beh[r] = Throw THEN createFallbackTransform(r, r) ELSE p.beh[r].val

\* part_001:287-309: the validation of the result
ValidatedResult(result) ==
  IF ~Truthy(result) THEN Obj(EmptyRow)
  ELSE IF ~TypeofObject(result) THEN Obj("value" :> result)
  ELSE IF result.t = "array" THEN Obj(ItemEntries(result.items))
  ELSE result

\* ultraSafeTransform(row): never throws
ultraSafeTransform(p, row) == ValidatedResult(GuardedCall(p, NormalRow(row)))

\* ultraSafeTransformFn(row): the callable new Function(functionWrapper)() gave
ultraSafeTransformFn(p, row) ==
  IF p.top = "returns" THEN p.beh[row] ELSE Return(ultraSafeTransform(p, row))

\* r && typeof r === 'object' && Object.keys(r).length > 0
NonEmptyObject(v) == Truthy(v) /\ TypeofObject(v) /\ ObjectKeys(v) # {}

Min(a, b) == IF a <= b THEN a ELSE b

\* data.slice(0, 5)
TemplateProbe == 5
ProbeRows(rows) == SubSeq(rows, 1, Min(TemplateProbe, Len(rows)))

\* The callback of data.map for one row: the emitted item and what it adds to
\* the counters.
MapRow(p, rows, row) ==
  LET res == ultraSafeTransformFn(p, row)
      probe == ProbeRows(rows)
      thrown == {k \in DOMAIN probe : ultraSafeTransformFn(p, probe[k]) = Throw}
      firstThrown == CHOOSE k \in thrown : \A j \in thrown : k <= j
      found == {k \in DOMAIN probe : NonEmptyObject(ultraSafeTransformFn(p, probe[k]).val)}
      templateObj == IF found = {} THEN Obj(EmptyRow)
                     ELSE ultraSafeTransformFn(p,
                            probe[CHOOSE k \in found : \A j \in found : k <= j]).val
  IN IF res = Throw
       THEN [item |-> Obj(EmptyRow), errors |-> 1, successes |-> 0, calls |-> 1]
     ELSE IF NonEmptyObject(res.val)
       THEN [item |-> res.val, errors |-> 0, successes |-> 1, calls |-> 1]
     ELSE IF thrown # {}
       THEN [item |-> Obj(EmptyRow), errors |-> 2, successes |-> 0,
             calls |-> 1 + firstThrown]
     ELSE [item |-> Obj(Blanked(ObjectKeys(templateObj))), errors |-> 1,
           successes |-> 0, calls |-> 1 + Len(probe)]

RECURSIVE MapRows(_, _, _)
MapRows(p, rows, n) ==
  IF n = 0
    THEN [items |-> <<>>, errorCount |-> 0, successCount |-> 0, calls |-> 0]
    ELSE LET before == MapRows(p, rows, n - 1)
             m == MapRow(p, rows, rows[n])
         IN [items |-> Append(before.items, m.item),
             errorCount |-> before.errorCount + m.errors,
             successCount |-> before.successCount + m.successes,
             calls |-> before.calls + m.calls]

\* mutant: the final filter also drops the objects without keys
FilterNonEmpty(items) == SelectSeq(items, LAMBDA v : NonEmptyObject(v))

\* .filter(item => item && typeof item === 'object')
FilterObjects(items) == SelectSeq(items, LAMBDA v : Truthy(v) /\ TypeofObject(v))

\* mutant: the length test is missing
InvalidBatchNoLength(d) == ~Truthy(d) \/ d.t # "array"

\* !data || !Array.isArray(data) || data.length === 0
InvalidBatch(d) == ~Truthy(d) \/ d.t # "array" \/ Len(d.items) = 0

\* mutant: the test for a transformRow declaration is missing
FatalNoDeclarationTest(p) ==
  \/ ~p.isString
  \/ p.blank
  \/ ~p.parses
  \/ p.top \in {"throws", "calls"}

\* the conditions under which the try block of part_001:217-368 throws
Fatal(p) ==
  \/ ~p.isString
  \/ p.blank
  \/ ~p.declares
  \/ ~p.parses
  \/ p.top \in {"throws", "calls"}

\* mutant: the last resort emits placeholders in place of the rows
CopyRowsBlanked(rows) == [i \in DOMAIN rows |-> Obj(Blanked(ObjectKeys(rows[i])))]

\* data.map(row => ({ ...row }))
CopyRows(rows) == [i \in DOMAIN rows |-> Obj(Props(rows[i]))]

\* mutant: no fault boundary around a row, a throw of transformRow lands in
\* the catch of the whole call
applyTransformationFunctionUnguarded(d, p) ==
  IF InvalidBatch(d)
    THEN [results |-> <<>>, raised |-> FALSE, errorCount |-> 0, successCount |-> 0,
          calls |-> 0, compiles |-> 0]
  ELSE IF Fatal(p) \/ \E i \in DOMAIN d.items : p.beh[d.items[i]] = Throw
    THEN [results |-> CopyRows(d.items), raised |-> FALSE, errorCount |-> 0,
          successCount |-> 0, calls |-> 0,
          compiles |-> IF p.isString /\ ~p.blank /\ p.declares THEN 1 ELSE 0]
  ELSE LET m == MapRows(p, d.items, Len(d.items))
       IN [results |-> FilterObjects(m.items), raised |-> FALSE,
           errorCount |-> m.errorCount, successCount |-> m.successCount,
           calls |-> m.calls, compiles |-> 1]

applyTransformationFunction(d, p) ==
  IF InvalidBatch(d)
    THEN [results |-> <<>>, raised |-> FALSE, errorCount |-> 0, successCount |-> 0,
          calls |-> 0, compiles |-> 0]
  ELSE IF Fatal(p)
    THEN [results |-> CopyRows(d.items), raised |-> FALSE, errorCount |-> 0,
          successCount |-> 0, calls |-> 0,
          compiles |-> IF p.isString /\ ~p.blank /\ p.declares THEN 1 ELSE 0]
  ELSE LET m == MapRows(p, d.items, Len(d.items))
       IN [results |-> FilterObjects(m.items), raised |-> FALSE,
           errorCount |-> m.errorCount, successCount |-> m.successCount,
           calls |-> m.calls, compiles |-> 1]

----------------------------------------------------------------------------
(* exactMatchJoin and fuzzyMatchJoin, part_003:382-512 *)

\* { algorithm: fuzzyAlgorithm, threshold: threshold }, part_003:85
FuzzyOptions(fuzzyAlgorithm, threshold) ==
  [algorithm |-> fuzzyAlgorithm, threshold |-> threshold]

\* row[col]
Get(row, col) == IF col \in DOMAIN Props(row) THEN Props(row)[col] ELSE Undefined

\* String(v), for the values a cell holds
String(v) ==
  CASE v.t = "string" -> v.s
    [] v.t = "number" -> ToString(v.n)
    [] v.t = "undefined" -> "undefined"
    [] v.t = "null" -> "null"
    [] OTHER -> "[object Object]"

\* Array.prototype.join turns undefined and null into the empty string
JoinElement(v) == IF v.t \in {"undefined", "null"} THEN "" ELSE String(v)

\* strings.join('|')
RECURSIVE JoinBar(_)
JoinBar(strings) ==
  IF strings = <<>> THEN ""
  ELSE IF Len(strings) = 1 THEN strings[1]
  ELSE strings[1] \o "|" \o JoinBar(Tail(strings))

\* mutant: the key is built from the first match column alone
JoinKeyFirstColumn(row, cols) == JoinElement(Get(row, cols[1]))

\* matchColumns.map(col => row[col]).join('|')
JoinKey(row, cols) == JoinBar([i \in DOMAIN cols |-> JoinElement(Get(row, cols[i]))])

\* mutant: the first row with a key keeps its place in the map
RECURSIVE TargetMapFirstWins(_, _, _)
TargetMapFirstWins(targets, cols, n) ==
  IF n = 0 THEN <<>>
  ELSE TargetMapFirstWins(targets, cols, n - 1) @@ (JoinKey(targets[n], cols) :> targets[n])

\* targetMap after targetData.forEach(... targetMap.set(key, targetRow)) over
\* the first n target rows: a later row replaces an earlier one with its key
RECURSIVE TargetMap(_, _, _)
TargetMap(targets, cols, n) ==
  IF n = 0 THEN <<>>
  ELSE (JoinKey(targets[n], cols) :> targets[n]) @@ TargetMap(targets, cols, n - 1)

\* targetMap.get(key)
MapGet(map, key) == IF key \in DOMAIN map THEN map[key] ELSE Undefined

\* Object.fromEntries(Object.entries(targetRow).filter(
\*   ([key]) => !Object.keys(transformedRow).includes(key)))
TargetExtras(transformedRow, targetRow) ==
  [k \in ObjectKeys(targetRow) \ ObjectKeys(transformedRow) |-> Props(targetRow)[k]]

\* mutant: the target row's fields are spread last and win
MatchedRecordTargetWins(transformedRow, targetRow, extra) ==
  Obj(extra @@ Props(targetRow) @@ Props(transformedRow))

\* { ...transformedRow, ...extras, __matchStatus: 'matched', ...extra }
MatchedRecord(transformedRow, targetRow, extra) ==
  Obj(extra @@ TargetExtras(transformedRow, targetRow) @@ Props(transformedRow))

\* { ...transformedRow, __matchStatus: 'unmatched', ...extra }
UnmatchedRecord(transformedRow, extra) == Obj(extra @@ Props(transformedRow))

\* the callback of transformedData.forEach in exactMatchJoin
ExactRow(transformedRow, targetMap, cols) ==
  IF Truthy(MapGet(targetMap, JoinKey(transformedRow, cols)))
    THEN [record |-> MatchedRecord(transformedRow,
                                   MapGet(targetMap, JoinKey(transformedRow, cols)),
                                   "__matchStatus" :> Str("matched")),
          matched |-> TRUE]
    ELSE [record |-> UnmatchedRecord(transformedRow, "__matchStatus" :> Str("unmatched")),
          matched |-> FALSE]

RECURSIVE Gcd(_, _)
Gcd(a, b) == IF b = 0 THEN a ELSE Gcd(b, a % b)

\* the number n / d
Frac(n, d) ==
  IF n = 0 THEN Num(0)
  ELSE [t |-> "number", n |-> n \div Gcd(n, d), d |-> d \div Gcd(n, d)]

Plus(x, y) == Frac(x.n * y.d + y.n * x.d, x.d * y.d)
Over(x, k) == Frac(x.n, x.d * k)
Greater(x, y) == x.n * y.d > y.n * x.d
AtLeast(x, y) == x.n * y.d >= y.n * x.d

\* mutant: a row without a match is left out of the output
PushRowInner(acc, r) ==
  [joinedData |-> IF r.matched THEN Append(acc.joinedData, r.record) ELSE acc.joinedData,
   matchCount |-> acc.matchCount + (IF r.matched THEN 1 ELSE 0),
   noMatchCount |-> acc.noMatchCount + (IF r.matched THEN 0 ELSE 1)]

\* joinedData.push(...) and matchCount++ or noMatchCount++
PushRow(acc, r) ==
  [joinedData |-> Append(acc.joinedData, r.record),
   matchCount |-> acc.matchCount + (IF r.matched THEN 1 ELSE 0),
   noMatchCount |-> acc.noMatchCount + (IF r.matched THEN 0 ELSE 1)]

\* mutant: the division is not guarded, 0 / 0 is NaN
StatsUnguarded(transformed, targets, acc) ==
  [totalTransformed |-> Len(transformed),
   totalTarget |-> Len(targets),
   matched |-> acc.matchCount,
   unmatched |-> acc.noMatchCount,
   matchRate |-> IF Len(transformed) > 0
                   THEN Frac(acc.matchCount, Len(transformed))
                   ELSE [t |-> "number", nan |-> TRUE]]

\* the stats object, part_003:424-430 and 503-509
Stats(transformed, targets, acc) ==
  [totalTransformed |-> Len(transformed),
   totalTarget |-> Len(targets),
   matched |-> acc.matchCount,
   unmatched |-> acc.noMatchCount,
   matchRate |-> IF Len(transformed) > 0
                   THEN Frac(acc.matchCount, Len(transformed))
                   ELSE Num(0)]

RECURSIVE ExactRows(_, _, _, _)
ExactRows(transformed, targetMap, cols, n) ==
  IF n = 0 THEN [joinedData |-> <<>>, matchCount |-> 0, noMatchCount |-> 0]
  ELSE PushRow(ExactRows(transformed, targetMap, cols, n - 1),
               ExactRow(transformed[n], targetMap, cols))

exactMatchJoin(transformed, targets, cols) ==
  [joinedData |->
     ExactRows(transformed, TargetMap(targets, cols, Len(targets)), cols,
               Len(transformed)).joinedData,
   stats |->
     Stats(transformed, targets,
           ExactRows(transformed, TargetMap(targets, cols, Len(targets)), cols,
                     Len(transformed)))]

\* toLowerCase, for the letters the cells hold
LowerCaseOf ==
  ("A" :> "a") @@ ("B" :> "b") @@ ("C" :> "c") @@ ("D" :> "d") @@ ("E" :> "e")
    @@ ("F" :> "f") @@ ("G" :> "g")
RECURSIVE ToLowerCase(_)
ToLowerCase(text) ==
  IF text = "" THEN ""
  ELSE (IF SubSeq(text, 1, 1) \in DOMAIN LowerCaseOf
          THEN LowerCaseOf[SubSeq(text, 1, 1)]
          ELSE SubSeq(text, 1, 1))
       \o ToLowerCase(SubSeq(text, 2, Len(text)))

\* String(row[col] || '').toLowerCase()
FuzzyText(row, col) ==
  ToLowerCase(IF Truthy(Get(row, col)) THEN String(Get(row, col)) ELSE "")

\* text.startsWith(prefix)
StartsWith(text, prefix) ==
  Len(prefix) <= Len(text) /\ SubSeq(text, 1, Len(prefix)) = prefix

Max(a, b) == IF a >= b THEN a ELSE b

\* what one match column adds to score, part_003:454-464
ColumnScore(transformedVal, targetVal) ==
  IF transformedVal = targetVal THEN Num(1)
  ELSE IF StartsWith(transformedVal, targetVal) \/ StartsWith(targetVal, transformedVal)
    THEN Frac(Min(Len(transformedVal), Len(targetVal)),
              Max(Len(transformedVal), Len(targetVal)))
  ELSE Num(0)

RECURSIVE ScoreSum(_, _, _, _)
ScoreSum(transformedRow, targetRow, cols, n) ==
  IF n = 0 THEN Num(0)
  ELSE Plus(ScoreSum(transformedRow, targetRow, cols, n - 1),
            ColumnScore(FuzzyText(transformedRow, cols[n]), FuzzyText(targetRow, cols[n])))

\* normalizedScore = score / maxPossibleScore
NormalizedScore(transformedRow, targetRow, cols) ==
  Over(ScoreSum(transformedRow, targetRow, cols, Len(cols)), Len(cols))

\* the 70% threshold of part_003:471
FuzzyThreshold == Frac(7, 10)

\* mutant: a score equal to the threshold does not qualify
BetterMatchStrict(best, targetRow, score) ==
  IF Greater(score, best.bestScore) /\ Greater(score, FuzzyThreshold)
    THEN [bestMatch |-> targetRow, bestScore |-> score]
    ELSE best

\* mutant: a later target row with an equal score replaces the current best
BetterMatchLastWins(best, targetRow, score) ==
  IF AtLeast(score, best.bestScore) /\ AtLeast(score, FuzzyThreshold)
    THEN [bestMatch |-> targetRow, bestScore |-> score]
    ELSE best

\* part_003:471-474 for one target row
BetterMatch(best, targetRow, score) ==
  IF Greater(score, best.bestScore) /\ AtLeast(score, FuzzyThreshold)
    THEN [bestMatch |-> targetRow, bestScore |-> score]
    ELSE best

\* bestMatch and bestScore after the first n target rows
RECURSIVE BestMatch(_, _, _, _)
BestMatch(transformedRow, targets, cols, n) ==
  IF n = 0 THEN [bestMatch |-> Null, bestScore |-> Num(0)]
  ELSE BetterMatch(BestMatch(transformedRow, targets, cols, n - 1), targets[n],
                   NormalizedScore(transformedRow, targets[n], cols))

\* mutant: a matched record carries the score 1
FuzzyRecordUnitScore(transformedRow, best) ==
  IF Truthy(best.bestMatch)
    THEN [record |-> MatchedRecord(transformedRow, best.bestMatch,
                                   ("__matchStatus" :> Str("matched"))
                                     @@ ("__matchScore" :> Num(1))),
          matched |-> TRUE]
    ELSE [record |-> UnmatchedRecord(transformedRow,
                                     ("__matchStatus" :> Str("unmatched"))
                                       @@ ("__matchScore" :> Num(0))),
          matched |-> FALSE]

\* part_003:477-499
FuzzyRecord(transformedRow, best) ==
  IF Truthy(best.bestMatch)
    THEN [record |-> MatchedRecord(transformedRow, best.bestMatch,
                                   ("__matchStatus" :> Str("matched"))
                                     @@ ("__matchScore" :> best.bestScore)),
          matched |-> TRUE]
    ELSE [record |-> UnmatchedRecord(transformedRow,
                                     ("__matchStatus" :> Str("unmatched"))
                                       @@ ("__matchScore" :> Num(0))),
          matched |-> FALSE]

\* the callback of transformedData.forEach in fuzzyMatchJoin
FuzzyRow(transformedRow, targets, cols) ==
  FuzzyRecord(transformedRow, BestMatch(transformedRow, targets, cols, Len(targets)))

RECURSIVE FuzzyRows(_, _, _, _)
FuzzyRows(transformed, targets, cols, n) ==
  IF n = 0 THEN [joinedData |-> <<>>, matchCount |-> 0, noMatchCount |-> 0]
  ELSE PushRow(FuzzyRows(transformed, targets, cols, n - 1),
               FuzzyRow(transformed[n], targets, cols))

fuzzyMatchJoin(transformed, targets, cols) ==
  [joinedData |-> FuzzyRows(transformed, targets, cols, Len(transformed)).joinedData,
   stats |-> Stats(transformed, targets,
                   FuzzyRows(transformed, targets, cols, Len(transformed)))]

----------------------------------------------------------------------------
(* calculateMetrics, part_001:437-495 *)

\* 0 / 0
NaN == [t |-> "number", nan |-> TRUE]

\* the metrics object as initialised, part_001:439-444
ZeroMetrics ==
  [f1Score |-> Num(0), precision |-> Num(0), recall |-> Num(0), editDistance |-> Num(0)]

\* mutant: an empty sequence is taken for data
NotEnoughDataNoLengthTest(transformed, target) == ~Truthy(transformed) \/ ~Truthy(target)

\* !transformedData || !targetData || transformedData.length === 0 ||
\* targetData.length === 0
NotEnoughData(transformed, target) ==
  \/ ~Truthy(transformed)
  \/ ~Truthy(target)
  \/ Len(transformed.items) = 0
  \/ Len(target.items) = 0

\* mutant: the value is turned into text as it is
MetricTextPlain(row, key) == String(Get(row, key))

\* String(row[key] || '')
MetricText(row, key) == IF Truthy(Get(row, key)) THEN String(Get(row, key)) ELSE ""

\* new Set([...Object.keys(transformedRow), ...Object.keys(targetRow)])
AllKeys(transformedRow, targetRow) == ObjectKeys(transformedRow) \cup ObjectKeys(targetRow)

Abs(n) == IF n < 0 THEN 0 - n ELSE n

\* what the loop over allKeys adds to matches and totalDistance for the keys
\* in keys, part_001:470-480
RECURSIVE KeyTotals(_, _, _)
KeyTotals(transformedRow, targetRow, keys) ==
  IF keys = {} THEN [matches |-> 0, totalDistance |-> 0]
  ELSE [matches |->
          KeyTotals(transformedRow, targetRow, keys \ {CHOOSE k \in keys : TRUE}).matches
            + (IF MetricText(transformedRow, CHOOSE k \in keys : TRUE)
                    = MetricText(targetRow, CHOOSE k \in keys : TRUE)
                 THEN 1 ELSE 0),
        totalDistance |->
          KeyTotals(transformedRow, targetRow, keys \ {CHOOSE k \in keys : TRUE}).totalDistance
            + Abs(Len(MetricText(transformedRow, CHOOSE k \in keys : TRUE))
                    - Len(MetricText(targetRow, CHOOSE k \in keys : TRUE)))]

\* matches, totalFields and totalDistance after the first n index pairs
RECURSIVE PairTotals(_, _, _)
PairTotals(transformed, target, n) ==
  IF n = 0 THEN [matches |-> 0, totalFields |-> 0, totalDistance |-> 0]
  ELSE [matches |->
          PairTotals(transformed, target, n - 1).matches
            + KeyTotals(transformed[n], target[n],
                        AllKeys(transformed[n], target[n])).matches,
        totalFields |->
          PairTotals(transformed, target, n - 1).totalFields
            + Cardinality(AllKeys(transformed[n], target[n])),
        totalDistance |->
          PairTotals(transformed, target, n - 1).totalDistance
            + KeyTotals(transformed[n], target[n],
                        AllKeys(transformed[n], target[n])).totalDistance]

\* matches / totalFields
Accuracy(totals) ==
  IF totals.totalFields = 0 THEN NaN ELSE Frac(totals.matches, totals.totalFields)

\* the metrics object after part_001:484-488
MetricsOf(totals) ==
  [f1Score |-> Accuracy(totals), precision |-> Accuracy(totals),
   recall |-> Accuracy(totals), editDistance |-> Num(totals.totalDistance)]

calculateMetrics(transformed, target) ==
  IF NotEnoughData(transformed, target) THEN ZeroMetrics
  ELSE MetricsOf(PairTotals(transformed.items, target.items,
                            Min(Len(transformed.items), Len(target.items))))

----------------------------------------------------------------------------
(* joinDatasets, part_003:11-132, and its applyTransformation, 315-379 *)

\* the fields of req.body that the handler reads
Request(sourceDatasetId, targetDatasetId, transformationFunction, columns) ==
  [sourceDatasetId |-> sourceDatasetId, targetDatasetId |-> targetDatasetId,
   transformationFunction |-> transformationFunction, matchColumns |-> columns]

NoEffects ==
  [lookups |-> 0, reads |-> 0, transforms |-> 0, joins |-> 0, writes |-> 0, creates |-> 0]

\* nothing outside the call, no second invocation, no stored document
NoLater ==
  /\ ambient = 0
  /\ access = "none"
  /\ first = <<>>
  /\ engine = "transformation"
  /\ rowIndex = 0
  /\ timeoutId = FALSE
  /\ status = "pending"
  /\ stored = [status |-> "pending", metrics |-> Undefined]

\* no request is being handled
NoRequest ==
  /\ req = Request(Undefined, Undefined, Undefined, Undefined)
  /\ response = [status |-> 0, error |-> Undefined]
  /\ datasets = {}
  /\ io = NoEffects

\* mutant: an empty list of match columns passes
MissingMatchColumnsNoLengthTest(columns) == ~Truthy(columns) \/ columns.t # "array"

\* !matchColumns || !Array.isArray(matchColumns) || matchColumns.length === 0
MissingMatchColumns(columns) ==
  ~Truthy(columns) \/ columns.t # "array" \/ Len(columns.items) = 0

\* the message of the first failed check of part_003:28-41, Undefined if none
ValidationError(r) ==
  IF ~Truthy(r.sourceDatasetId) \/ ~Truthy(r.targetDatasetId)
    THEN Str("Please provide source and target dataset IDs")
  ELSE IF r.transformationFunction = Undefined
    THEN Str("Please provide a transformation function")
  ELSE IF MissingMatchColumns(r.matchColumns)
    THEN Str("Please provide at least one match column")
  ELSE Undefined

\* the catch of part_003:127-131: status 500 and a new error around the message
Failed(message) ==
  [status |-> 500, error |-> Str("Error joining datasets: " \o message.s)]

\* the names in a list of match columns
ColumnNames(columns) == [i \in DOMAIN columns.items |-> columns.items[i].s]

\* what transform(simpleRow) of part_003:327-349 hands back for one row
TransformOne(p, row) ==
  CASE p.top = "calls" -> IF p.beh[row] = Throw THEN row ELSE p.beh[row].val
    [] p.top = "returns" -> [t |-> "function"]
    [] OTHER -> row

\* the loop body of part_003:354-375
TransformedRow(p, row) ==
  IF TypeofObject(TransformOne(p, row)) /\ TransformOne(p, row) # Null
    THEN TransformOne(p, row)
    ELSE row

\* applyTransformation(data, transformationFunction): it throws when the text
\* has no substring method or new Function rejects it
applyTransformation(rows, p) ==
  IF ~p.isString
    THEN [thrown |-> TRUE, results |-> <<>>,
          message |-> Str("transformationFunction.substring is not a function")]
  ELSE IF ~p.parses
    THEN [thrown |-> TRUE, results |-> <<>>, message |-> Str("Unexpected token")]
  ELSE [thrown |-> FALSE, results |-> [i \in DOMAIN rows |-> TransformedRow(p, rows[i])],
        message |-> Undefined]

----------------------------------------------------------------------------
(* The transformer as a system: a batch and a text are given, the call runs *)

MaxRows == 3

RECURSIVE SeqsUpTo(_, _)
SeqsUpTo(S, n) ==
  IF n = 0 THEN {<<>>}
  ELSE LET shorter == SeqsUpTo(S, n - 1)
       IN shorter \cup {Append(s, x) : s \in {t \in shorter : Len(t) = n - 1}, x \in S}

\* batches longer than the template probe: five rows without keys, then more
LongBatches ==
  {Arr(<<Obj(EmptyRow), Obj(EmptyRow), Obj(EmptyRow), Obj(EmptyRow), Obj(EmptyRow)>> \o s) :
     s \in SeqsUpTo(Rows, 2) \ {<<>>}}

Batches ==
  {Null, Undefined, Str("x"), RowA}
    \cup {Arr(s) : s \in SeqsUpTo(Rows, MaxRows)}
    \cup LongBatches

InitTransform ==
  /\ pc = "ready"
  /\ data \in Batches
  /\ proc \in Procedures
  /\ results = <<>>
  /\ raised = FALSE
  /\ errorCount = 0
  /\ successCount = 0
  /\ calls = 0
  /\ compiles = 0
  /\ metrics = <<>>
  /\ NoRequest
  /\ NoLater
  /\ matchType = "exact"
  /\ matchColumns = <<>>
  /\ fuzzyOptions = FuzzyOptions(Undefined, Undefined)
  /\ transformedData = <<>>
  /\ targetData = <<>>
  /\ joinedData = <<>>
  /\ stats = <<>>

ApplyTransformationFunction ==
  /\ pc = "ready"
  /\ LET r == applyTransformationFunction(data, proc)
     IN /\ results' = r.results
        /\ raised' = r.raised
        /\ errorCount' = r.errorCount
        /\ successCount' = r.successCount
        /\ calls' = r.calls
        /\ compiles' = r.compiles
  /\ pc' = "done"
  /\ UNCHANGED <<laterVars, data, proc, metrics, joinVars, requestVars>>

NextTransform == ApplyTransformationFunction

SpecTransform == InitTransform /\ [][NextTransform]_vars

----------------------------------------------------------------------------
(* The join as a system: joinDatasets hands the transformed rows, the target *)
(* rows and the match columns to one of the two joins, part_003:78-90        *)

MaxTransformed == 2
MaxTarget == 2

TransformedRows ==
  {Obj(("id" :> Str("A")) @@ ("v" :> Num(1))),
   Obj(("id" :> Str("B")) @@ ("v" :> Num(1))),
   Obj("v" :> Num(1)),
   Obj(("id" :> Num(1)) @@ ("w" :> Num(9))),
   Obj("id" :> Str("A|B")),
   Obj(("id" :> Str("A")) @@ ("__matchStatus" :> Str("old")))}

TargetRows ==
  {Obj(("id" :> Str("A")) @@ ("w" :> Num(2))),
   Obj(("id" :> Str("A")) @@ ("w" :> Num(3))),
   Obj("w" :> Num(2)),
   Obj(("id" :> Str("1")) @@ ("w" :> Num(3))),
   Obj(("id" :> Str("A")) @@ ("v" :> Str("B|"))),
   Obj(("id" :> Str("B")) @@ ("__matchStatus" :> Str("old")))}

\* the match columns of a request that passed the check of part_003:38
MatchColumnLists == {<<"id">>, <<"id", "v">>}

InitJoin ==
  /\ pc = "ready"
  /\ matchType \in {"exact", "fuzzy"}
  /\ matchColumns \in MatchColumnLists
  /\ fuzzyOptions = FuzzyOptions(Undefined, Undefined)
  /\ transformedData \in SeqsUpTo(TransformedRows, MaxTransformed)
  /\ targetData \in SeqsUpTo(TargetRows, MaxTarget)
  /\ joinedData = <<>>
  /\ stats = <<>>
  /\ data = Null
  /\ proc = WellFormed([r \in Rows |-> Return(r)])
  /\ results = <<>>
  /\ raised = FALSE
  /\ errorCount = 0
  /\ successCount = 0
  /\ calls = 0
  /\ compiles = 0
  /\ metrics = <<>>
  /\ NoRequest
  /\ NoLater

ExactMatchJoin ==
  /\ pc = "ready"
  /\ matchType = "exact"
  /\ joinedData' = exactMatchJoin(transformedData, targetData, matchColumns).joinedData
  /\ stats' = exactMatchJoin(transformedData, targetData, matchColumns).stats
  /\ pc' = "done"
  /\ UNCHANGED <<laterVars, transformVars, requestVars, matchType, matchColumns, fuzzyOptions,
               transformedData, targetData>>

\* fuzzyOptions is passed as a fourth argument, for which fuzzyMatchJoin
\* declares no parameter (part_003:87, 436)
FuzzyMatchJoin ==
  /\ pc = "ready"
  /\ matchType # "exact"
  /\ joinedData' = fuzzyMatchJoin(transformedData, targetData, matchColumns).joinedData
  /\ stats' = fuzzyMatchJoin(transformedData, targetData, matchColumns).stats
  /\ pc' = "done"
  /\ UNCHANGED <<laterVars, transformVars, requestVars, matchType, matchColumns, fuzzyOptions,
               transformedData, targetData>>

NextJoin == ExactMatchJoin \/ FuzzyMatchJoin

SpecJoin == InitJoin /\ [][NextJoin]_vars

----------------------------------------------------------------------------
(* The fuzzy join on rows whose texts are prefixes of each other, with the *)
(* options of the request                                                  *)

FuzzyTransformedRows ==
  {Obj("id" :> Str("abcd")),
   Obj("id" :> Str("ABCDEFG")),
   Obj("id" :> Str("ab")),
   Obj(("id" :> Str("abcd")) @@ ("v" :> Num(0)))}

FuzzyTargetRows ==
  {Obj(("id" :> Str("abcde")) @@ ("w" :> Num(2))),
   Obj(("id" :> Str("abcde")) @@ ("w" :> Num(3))),
   Obj(("id" :> Str("abcd")) @@ ("w" :> Num(4))),
   Obj(("id" :> Str("abcdefghij")) @@ ("w" :> Num(5))),
   Obj(("id" :> Str("abc")) @@ ("v" :> Str("x")))}

\* req.body.threshold: absent, or a number
Thresholds == {Undefined, Frac(9, 10), Frac(1, 2)}

\* req.body.fuzzyAlgorithm: absent, or a name
FuzzyAlgorithms == {Undefined, Str("levenshtein")}

InitFuzzy ==
  /\ pc = "ready"
  /\ matchType = "fuzzy"
  /\ matchColumns \in MatchColumnLists
  /\ fuzzyOptions \in {FuzzyOptions(a, t) : a \in FuzzyAlgorithms, t \in Thresholds}
  /\ transformedData \in SeqsUpTo(FuzzyTransformedRows, MaxTransformed)
  /\ targetData \in SeqsUpTo(FuzzyTargetRows, MaxTarget)
  /\ joinedData = <<>>
  /\ stats = <<>>
  /\ data = Null
  /\ proc = WellFormed([r \in Rows |-> Return(r)])
  /\ results = <<>>
  /\ raised = FALSE
  /\ errorCount = 0
  /\ successCount = 0
  /\ calls = 0
  /\ compiles = 0
  /\ metrics = <<>>
  /\ NoRequest
  /\ NoLater

NextFuzzy == FuzzyMatchJoin

SpecFuzzy == InitFuzzy /\ [][NextFuzzy]_vars

----------------------------------------------------------------------------
(* joinDatasets as a system: a request arrives and the handler runs from    *)
(* one await to the next                                                    *)

\* the rows in the file of the source and of the target dataset
SourceRows == <<RowA, RowAB>>
StoredTargetRows == <<Obj(("a" :> Str("x")) @@ ("w" :> Num(2)))>>

\* req.body.transformationFunction: absent, not a string, a text that does
\* not parse, a text that declares transformRow only, and a generated text
\* that ends in `return transformRow(row);`
RequestTexts ==
  {Undefined,
   Text(FALSE, FALSE, FALSE, FALSE, "end", [r \in Rows |-> Return(r)]),
   Text(TRUE, FALSE, TRUE, FALSE, "end", [r \in Rows |-> Return(r)]),
   WellFormed([r \in Rows |-> Return(r)]),
   Text(TRUE, FALSE, TRUE, TRUE, "calls", [r \in Rows |-> Return(RowC)]),
   Text(TRUE, FALSE, TRUE, TRUE, "calls", [r \in Rows |-> Throw])}

\* req.body.matchColumns: absent, null, a text, and lists of names
RequestColumns ==
  {Undefined, Null, Str("a"), Arr(<<>>), Arr(<<Str("a")>>), Arr(<<Str("a"), Str("b")>>)}

Requests ==
  {Request(s, t, f, c) : s \in {Undefined, Str("s")}, t \in {Undefined, Str("t")},
                         f \in RequestTexts, c \in RequestColumns}

InitRequest ==
  /\ pc = "ready"
  /\ NoLater
  /\ req \in Requests
  /\ response = [status |-> 0, error |-> Undefined]
  /\ datasets \in SUBSET {"s", "t"}
  /\ io = NoEffects
  /\ matchType \in {"exact", "fuzzy"}
  /\ matchColumns = IF req.matchColumns.t = "array" THEN ColumnNames(req.matchColumns)
                    ELSE <<>>
  /\ fuzzyOptions = FuzzyOptions(Undefined, Undefined)
  /\ transformedData = <<>>
  /\ targetData = <<>>
  /\ joinedData = <<>>
  /\ stats = <<>>
  /\ data = Null
  /\ proc = WellFormed([r \in Rows |-> Return(r)])
  /\ results = <<>>
  /\ raised = FALSE
  /\ errorCount = 0
  /\ successCount = 0
  /\ calls = 0
  /\ compiles = 0
  /\ metrics = <<>>

\* part_003:27-41
Validate ==
  /\ pc = "ready"
  /\ IF ValidationError(req) # Undefined
       THEN /\ response' = Failed(ValidationError(req))
            /\ pc' = "failed"
       ELSE /\ pc' = "validated"
            /\ UNCHANGED response
  /\ UNCHANGED <<laterVars, transformVars, joinVars, req, datasets, io>>

\* part_003:47-53
FindDatasets ==
  /\ pc = "validated"
  /\ io' = [io EXCEPT !.lookups = @ + 2]
  /\ IF req.sourceDatasetId.s \notin datasets \/ req.targetDatasetId.s \notin datasets
       THEN /\ response' = Failed(Str("One or both datasets not found"))
            /\ pc' = "failed"
       ELSE /\ pc' = "found"
            /\ UNCHANGED response
  /\ UNCHANGED <<laterVars, transformVars, joinVars, req, datasets>>

\* part_003:61-65: each readDatasetFile resolves with the rows or rejects
ReadDatasetFiles ==
  /\ pc = "found"
  /\ \E sourceRead \in BOOLEAN, targetRead \in BOOLEAN :
       IF ~sourceRead
         THEN /\ io' = [io EXCEPT !.reads = @ + 1]
              /\ response' = Failed(Str("No file path provided for dataset"))
              /\ pc' = "failed"
              /\ UNCHANGED <<data, targetData>>
       ELSE IF ~targetRead
         THEN /\ io' = [io EXCEPT !.reads = @ + 2]
              /\ response' = Failed(Str("No file path provided for dataset"))
              /\ pc' = "failed"
              /\ UNCHANGED <<data, targetData>>
       ELSE /\ io' = [io EXCEPT !.reads = @ + 2]
            /\ data' = Arr(SourceRows)
            /\ targetData' = StoredTargetRows
            /\ pc' = "read"
            /\ UNCHANGED response
  /\ UNCHANGED <<laterVars, proc, results, raised, errorCount, successCount, calls, compiles, metrics,
                 matchType, matchColumns, fuzzyOptions, transformedData, joinedData,
                 stats, req, datasets>>

\* part_003:70
ApplyTransformation ==
  /\ pc = "read"
  /\ io' = [io EXCEPT !.transforms = @ + 1]
  /\ IF applyTransformation(data.items, req.transformationFunction).thrown
       THEN /\ response' =
                 Failed(applyTransformation(data.items, req.transformationFunction).message)
            /\ pc' = "failed"
            /\ UNCHANGED transformedData
       ELSE /\ transformedData' =
                 applyTransformation(data.items, req.transformationFunction).results
            /\ pc' = "transformed"
            /\ UNCHANGED response
  /\ UNCHANGED <<laterVars, transformVars, matchType, matchColumns, fuzzyOptions, targetData,
                 joinedData, stats, req, datasets>>

\* part_003:78-90
JoinData ==
  /\ pc = "transformed"
  /\ io' = [io EXCEPT !.joins = @ + 1]
  /\ IF matchType = "exact"
       THEN /\ joinedData' = exactMatchJoin(transformedData, targetData, matchColumns).joinedData
            /\ stats' = exactMatchJoin(transformedData, targetData, matchColumns).stats
       ELSE /\ joinedData' = fuzzyMatchJoin(transformedData, targetData, matchColumns).joinedData
            /\ stats' = fuzzyMatchJoin(transformedData, targetData, matchColumns).stats
  /\ pc' = "joined"
  /\ UNCHANGED <<laterVars, transformVars, matchType, matchColumns, fuzzyOptions, transformedData,
                 targetData, req, response, datasets>>

\* part_003:98-106: the file is written, or the writer rejects
WriteRecords ==
  /\ pc = "joined"
  /\ io' = [io EXCEPT !.writes = @ + 1]
  /\ \E written \in BOOLEAN :
       IF written
         THEN /\ pc' = "written"
              /\ UNCHANGED response
         ELSE /\ response' = Failed(Str("ENOENT: no such file or directory"))
              /\ pc' = "failed"
  /\ UNCHANGED <<laterVars, transformVars, joinVars, req, datasets>>

\* part_003:111-126
CreateDataset ==
  /\ pc = "written"
  /\ io' = [io EXCEPT !.creates = @ + 1]
  /\ datasets' = datasets \cup {"joined"}
  /\ response' = [status |-> 200, error |-> Undefined]
  /\ pc' = "done"
  /\ UNCHANGED <<laterVars, transformVars, joinVars, req>>

NextRequest ==
  \/ Validate
  \/ FindDatasets
  \/ ReadDatasetFiles
  \/ ApplyTransformation
  \/ JoinData
  \/ WriteRecords
  \/ CreateDataset

SpecRequest == InitRequest /\ [][NextRequest]_vars

----------------------------------------------------------------------------
(* calculateMetrics as a system: the transformed rows and the target rows  *)
(* are given, the call runs, part_001:187                                  *)

MaxMetricRows == 2

MetricRows ==
  {Obj(EmptyRow),
   Obj("a" :> Str("x")),
   Obj("a" :> Str("xyz")),
   Obj("a" :> Num(0)),
   Obj("a" :> Str("")),
   Obj("b" :> Str("x")),
   Obj(("a" :> Str("x")) @@ ("b" :> Num(7)))}

InitMetrics ==
  /\ pc = "ready"
  /\ transformedData \in SeqsUpTo(MetricRows, MaxMetricRows)
  /\ targetData \in SeqsUpTo(MetricRows, MaxMetricRows)
  /\ metrics = <<>>
  /\ matchType = "exact"
  /\ matchColumns = <<>>
  /\ fuzzyOptions = FuzzyOptions(Undefined, Undefined)
  /\ joinedData = <<>>
  /\ stats = <<>>
  /\ data = Null
  /\ proc = WellFormed([r \in Rows |-> Return(r)])
  /\ results = <<>>
  /\ raised = FALSE
  /\ errorCount = 0
  /\ successCount = 0
  /\ calls = 0
  /\ compiles = 0
  /\ NoRequest
  /\ NoLater

CalculateMetrics ==
  /\ pc = "ready"
  /\ metrics' = calculateMetrics(Arr(transformedData), Arr(targetData))
  /\ pc' = "done"
  /\ UNCHANGED <<laterVars, data, proc, results, raised, errorCount, successCount, calls, compiles,
                 joinVars, requestVars>>

NextMetrics == CalculateMetrics

SpecMetrics == InitMetrics /\ [][NextMetrics]_vars

----------------------------------------------------------------------------
(* Two invocations of applyTransformationFunction in one process.  The     *)
(* text is compiled by new Function (part_001:322), whose code runs in the *)
(* global scope: a text can read and assign the properties of globalThis.  *)

MaxRunRows == 2

\* the text as it behaves for the outside state g: a text that reads it hands
\* a fixed record back once the state is set,
\*   function transformRow(row) { if (globalThis.flag) return {c: 'z'}; ... }
OutsideText(p, acc, g) ==
  IF acc = "reads" /\ g = 1 THEN [p EXCEPT !.beh = [r \in Rows |-> Return(RowC)]] ELSE p

\* the outside state after an invocation that called transformRow n times: a
\* text that writes it sets it in each call,
\*   function transformRow(row) { globalThis.flag = 1; ... }
OutsideAfter(acc, g, n) == IF acc = "writes" /\ n > 0 THEN 1 ELSE g

\* mutant: the counters go on from where the invocation before left them
CountersCarried(before, run) ==
  [errorCount |-> before.errorCount + run.errorCount,
   successCount |-> before.successCount + run.successCount]

\* let errorCount = 0; let successCount = 0; (part_001:325-326): the counters
\* of an invocation are its own
Counters(before, run) ==
  [errorCount |-> run.errorCount, successCount |-> run.successCount]

\* transformRow hands back nothing, the row, a fixed record, or throws
RunBehaviours ==
  {b \in Behaviours :
     \A r \in Rows : b[r] \in {Throw, Return(Undefined), Return(r), Return(RowC)}}

RunProcedures ==
  UNION {{WellFormed(b), Text(TRUE, FALSE, TRUE, TRUE, "returns", b)} : b \in RunBehaviours}
    \cup {Text(TRUE, FALSE, TRUE, TRUE, "throws", [r \in Rows |-> Return(r)]),
          Text(TRUE, FALSE, FALSE, TRUE, "end", [r \in Rows |-> Return(r)])}

InitRuns ==
  /\ pc = "ready"
  /\ data \in {Arr(rows) : rows \in SeqsUpTo(Rows, MaxRunRows)}
  /\ proc \in RunProcedures
  /\ access \in {"none", "reads", "writes"}
  /\ ambient = 0
  /\ first = <<>>
  /\ results = <<>>
  /\ raised = FALSE
  /\ errorCount = 0
  /\ successCount = 0
  /\ calls = 0
  /\ compiles = 0
  /\ metrics = <<>>
  /\ matchType = "exact"
  /\ matchColumns = <<>>
  /\ fuzzyOptions = FuzzyOptions(Undefined, Undefined)
  /\ transformedData = <<>>
  /\ targetData = <<>>
  /\ joinedData = <<>>
  /\ stats = <<>>
  /\ NoRequest
  /\ engine = "transformation"
  /\ rowIndex = 0
  /\ timeoutId = FALSE
  /\ status = "pending"
  /\ stored = [status |-> "pending", metrics |-> Undefined]

\* the first invocation
Transform ==
  /\ pc = "ready"
  /\ results' = applyTransformationFunction(data, OutsideText(proc, access, ambient)).results
  /\ raised' = applyTransformationFunction(data, OutsideText(proc, access, ambient)).raised
  /\ calls' = applyTransformationFunction(data, OutsideText(proc, access, ambient)).calls
  /\ compiles' = applyTransformationFunction(data, OutsideText(proc, access, ambient)).compiles
  /\ errorCount' =
       Counters([errorCount |-> errorCount, successCount |-> successCount],
                applyTransformationFunction(data, OutsideText(proc, access, ambient))).errorCount
  /\ successCount' =
       Counters([errorCount |-> errorCount, successCount |-> successCount],
                applyTransformationFunction(data, OutsideText(proc, access, ambient))).successCount
  /\ ambient' = OutsideAfter(access, ambient, calls')
  /\ first' = [results |-> results', errorCount |-> errorCount',
               successCount |-> successCount', compiles |-> compiles',
               before |-> ambient, after |-> ambient']
  /\ pc' = "once"
  /\ UNCHANGED <<data, proc, metrics, joinVars, requestVars, access, stepVars, storeVars>>

\* other code of the process changes the outside state between the invocations
OutsideChange ==
  /\ pc = "once"
  /\ ambient = 0
  /\ ambient' = 1
  /\ UNCHANGED <<pc, transformVars, joinVars, requestVars, access, first, stepVars, storeVars>>

\* the second invocation, with the same rows and the same text
TransformAgain ==
  /\ pc = "once"
  /\ results' = applyTransformationFunction(data, OutsideText(proc, access, ambient)).results
  /\ raised' = applyTransformationFunction(data, OutsideText(proc, access, ambient)).raised
  /\ calls' = applyTransformationFunction(data, OutsideText(proc, access, ambient)).calls
  /\ compiles' = applyTransformationFunction(data, OutsideText(proc, access, ambient)).compiles
  /\ errorCount' =
       Counters([errorCount |-> errorCount, successCount |-> successCount],
                applyTransformationFunction(data, OutsideText(proc, access, ambient))).errorCount
  /\ successCount' =
       Counters([errorCount |-> errorCount, successCount |-> successCount],
                applyTransformationFunction(data, OutsideText(proc, access, ambient))).successCount
  /\ ambient' = OutsideAfter(access, ambient, calls')
  /\ pc' = "twice"
  /\ UNCHANGED <<data, proc, metrics, joinVars, requestVars, access, first, stepVars,
                 storeVars>>

NextRuns == Transform \/ OutsideChange \/ TransformAgain

SpecRuns == InitRuns /\ [][NextRuns]_vars

----------------------------------------------------------------------------
(* The row loops of the two transformers, one row at a time.  JavaScript   *)
(* runs a call to its end before anything else: a timer callback runs only *)
(* once the call stack is empty.                                           *)

\* transformRow never returns for the row: while (true) {}
Loop == [kind |-> "loop"]

StepBehaviours == [Rows -> {Loop, Throw, Return(Undefined), Return(RowC)}]

\* a text each transformer compiles and calls: part_001 wraps a text that
\* declares transformRow, part_003 runs a text that ends in
\* return transformRow(row);
StepText(e, b) ==
  IF e = "transformation" THEN WellFormed(b)
  ELSE Text(TRUE, FALSE, TRUE, TRUE, "calls", b)

\* the callback of part_001:329-359 comes back for the row: transformRow
\* returns for it and, when its result is not a record with keys, for each of
\* the rows probed for a template (340)
MapRowReturns(p, rows, row) ==
  /\ p.beh[row] # Loop
  /\ \/ NonEmptyObject(ultraSafeTransformFn(p, row).val)
     \/ \A k \in DOMAIN ProbeRows(rows) : p.beh[ProbeRows(rows)[k]] # Loop

\* transform(simpleRow) of part_003:361 comes back
TransformReturns(p, row) == p.beh[row] # Loop

RowReturns(e, p, rows, row) ==
  IF e = "transformation" THEN MapRowReturns(p, rows, row) ELSE TransformReturns(p, row)

RowItem(e, p, rows, row) ==
  IF e = "transformation" THEN MapRow(p, rows, row).item ELSE TransformedRow(p, row)

InitSteps ==
  /\ pc = "ready"
  /\ engine \in {"transformation", "join"}
  /\ data \in {Arr(rows) : rows \in SeqsUpTo(Rows, MaxRunRows)}
  /\ proc \in {StepText(engine, b) : b \in StepBehaviours}
  /\ rowIndex = 0
  /\ timeoutId = FALSE
  /\ results = <<>>
  /\ raised = FALSE
  /\ errorCount = 0
  /\ successCount = 0
  /\ calls = 0
  /\ compiles = 0
  /\ metrics = <<>>
  /\ matchType = "exact"
  /\ matchColumns = <<>>
  /\ fuzzyOptions = FuzzyOptions(Undefined, Undefined)
  /\ transformedData = <<>>
  /\ targetData = <<>>
  /\ joinedData = <<>>
  /\ stats = <<>>
  /\ NoRequest
  /\ ambient = 0
  /\ access = "none"
  /\ first = <<>>
  /\ status = "pending"
  /\ stored = [status |-> "pending", metrics |-> Undefined]

\* new Function(...) gave the callable; the loop over the rows begins
Compile ==
  /\ pc = "ready"
  /\ pc' = "mapping"
  /\ rowIndex' = 1
  /\ compiles' = 1
  /\ UNCHANGED <<data, proc, results, raised, errorCount, successCount, calls, metrics,
                 joinVars, requestVars, runVars, engine, timeoutId, storeVars>>

\* one pass of the loop: the row is handed over and its item is stored; in
\* part_003 the timer is set before and cleared after the text ran
InvokeRow ==
  /\ pc = "mapping"
  /\ rowIndex <= Len(data.items)
  /\ RowReturns(engine, proc, data.items, data.items[rowIndex])
  /\ results' = Append(results, RowItem(engine, proc, data.items, data.items[rowIndex]))
  /\ rowIndex' = rowIndex + 1
  /\ UNCHANGED <<pc, data, proc, raised, errorCount, successCount, calls, compiles, metrics,
                 joinVars, requestVars, runVars, engine, timeoutId, storeVars>>

\* the row is handed over and control does not come back: in part_003 the
\* timer stays set, and its callback is never run
NeverReturns ==
  /\ pc = "mapping"
  /\ rowIndex <= Len(data.items)
  /\ ~RowReturns(engine, proc, data.items, data.items[rowIndex])
  /\ pc' = "looping"
  /\ timeoutId' = (engine = "join")
  /\ UNCHANGED <<data, proc, results, raised, errorCount, successCount, calls, compiles,
                 metrics, joinVars, requestVars, runVars, engine, rowIndex, storeVars>>

\* the loop is over and the rows are returned
ReturnRows ==
  /\ pc = "mapping"
  /\ rowIndex > Len(data.items)
  /\ pc' = "done"
  /\ UNCHANGED <<transformVars, joinVars, requestVars, laterVars>>

NextSteps == Compile \/ InvokeRow \/ NeverReturns \/ ReturnRows

\* the engine goes on running the code it is in
SpecSteps == InitSteps /\ [][NextSteps]_vars /\ WF_vars(NextSteps)

----------------------------------------------------------------------------
(* The two transformers side by side: the same rows and the same text are  *)
(* given to applyTransformationFunction and to applyTransformation.        *)

\* texts that declare transformRow and compile: the declaration alone, the
\* declaration followed by return transformRow(row); and the declaration
\* followed by return transformRow;
DeclaringTexts ==
  {Text(TRUE, FALSE, TRUE, TRUE, top, b) :
     top \in {"end", "calls", "returns"}, b \in RunBehaviours}

InitBoth ==
  /\ pc = "ready"
  /\ data \in {Arr(rows) : rows \in SeqsUpTo(Rows, MaxRunRows)}
  /\ proc \in DeclaringTexts
  /\ results = <<>>
  /\ raised = FALSE
  /\ errorCount = 0
  /\ successCount = 0
  /\ calls = 0
  /\ compiles = 0
  /\ metrics = <<>>
  /\ matchType = "exact"
  /\ matchColumns = <<>>
  /\ fuzzyOptions = FuzzyOptions(Undefined, Undefined)
  /\ transformedData = <<>>
  /\ targetData = <<>>
  /\ joinedData = <<>>
  /\ stats = <<>>
  /\ NoRequest
  /\ NoLater

\* the transformation controller's transformer runs
TransformInController ==
  /\ pc \in {"ready", "joined"}
  /\ results' = applyTransformationFunction(data, proc).results
  /\ raised' = applyTransformationFunction(data, proc).raised
  /\ errorCount' = applyTransformationFunction(data, proc).errorCount
  /\ successCount' = applyTransformationFunction(data, proc).successCount
  /\ calls' = applyTransformationFunction(data, proc).calls
  /\ compiles' = applyTransformationFunction(data, proc).compiles
  /\ pc' = IF pc = "ready" THEN "transformed" ELSE "both"
  /\ UNCHANGED <<data, proc, metrics, joinVars, requestVars, laterVars>>

\* the join controller's transformer runs
TransformInJoin ==
  /\ pc \in {"ready", "transformed"}
  /\ transformedData' = applyTransformation(data.items, proc).results
  /\ pc' = IF pc = "ready" THEN "joined" ELSE "both"
  /\ UNCHANGED <<transformVars, matchType, matchColumns, fuzzyOptions, targetData,
                 joinedData, stats, requestVars, laterVars>>

NextBoth == TransformInController \/ TransformInJoin

SpecBoth == InitBoth /\ [][NextBoth]_vars

----------------------------------------------------------------------------
(* POST /api/transformations/:id/apply, part_001:110-208, one step for     *)
(* each await of the handler.  A call on the database or the file system   *)
(* resolves or rejects.                                                     *)

\* defaultTransformations.js:7-11: the text "return row;", which declares no
\* transformRow
identityTransformation ==
  Text(TRUE, FALSE, FALSE, TRUE, "returns", [r \in Rows |-> Return(r)])

\* the texts a stored transformation may hold, Undefined when it holds none
StoredTexts ==
  {Undefined,
   WellFormed([r \in Rows |-> Return(r)]),
   WellFormed([r \in Rows |-> Return(Undefined)])}

StoredTargets == {<<RowA>>, <<RowA, RowAB>>}

InitApply ==
  /\ pc = "ready"
  /\ data \in {Arr(rows) : rows \in SeqsUpTo(Rows, MaxRunRows)}
  /\ proc \in StoredTexts
  /\ targetData \in StoredTargets
  /\ status = "pending"
  /\ stored = [status |-> "pending", metrics |-> Undefined]
  /\ results = <<>>
  /\ raised = FALSE
  /\ errorCount = 0
  /\ successCount = 0
  /\ calls = 0
  /\ compiles = 0
  /\ metrics = <<>>
  /\ matchType = "exact"
  /\ matchColumns = <<>>
  /\ fuzzyOptions = FuzzyOptions(Undefined, Undefined)
  /\ transformedData = <<>>
  /\ joinedData = <<>>
  /\ stats = <<>>
  /\ NoRequest
  /\ ambient = 0
  /\ access = "none"
  /\ first = <<>>
  /\ engine = "transformation"
  /\ rowIndex = 0
  /\ timeoutId = FALSE

\* 111-118: Transformation.findById
FindById ==
  /\ pc = "ready"
  /\ \E found \in BOOLEAN :
       IF found
         THEN pc' = "found" /\ UNCHANGED response
         ELSE /\ pc' = "notfound"
              /\ response' = [status |-> 404, error |-> Str("Transformation not found")]
  /\ UNCHANGED <<transformVars, joinVars, req, datasets, io, laterVars>>

\* 121-136: a transformation without a text gets the identity text; the
\* update of the stored document may fail and is then skipped
UseFallback ==
  /\ pc = "found"
  /\ IF proc = Undefined
       THEN /\ proc' = identityTransformation
            /\ \E ok \in BOOLEAN :
                 stored' = IF ok THEN [stored EXCEPT !.status = "auto_updated_with_fallback"]
                           ELSE stored
       ELSE UNCHANGED <<proc, stored>>
  /\ pc' = "starting"
  /\ UNCHANGED <<data, results, raised, errorCount, successCount, calls, compiles, metrics,
                 joinVars, requestVars, runVars, stepVars, status>>

\* 140-141: status = 'processing'; await save()
SaveProcessing ==
  /\ pc = "starting"
  /\ status' = "processing"
  /\ \E ok \in BOOLEAN :
       IF ok
         THEN stored' = [stored EXCEPT !.status = "processing"] /\ pc' = "reading"
         ELSE UNCHANGED stored /\ pc' = "failing"
  /\ UNCHANGED <<transformVars, joinVars, requestVars, runVars, stepVars>>

\* 144: await readDatasetFile(sourceTable)
ReadSource ==
  /\ pc = "reading"
  /\ \E ok \in BOOLEAN : pc' = IF ok THEN "transforming" ELSE "failing"
  /\ UNCHANGED <<transformVars, joinVars, requestVars, laterVars>>

\* 147: applyTransformationFunction(sourceData, transformationFunction)
TransformSource ==
  /\ pc = "transforming"
  /\ results' = applyTransformationFunction(data, proc).results
  /\ raised' = applyTransformationFunction(data, proc).raised
  /\ errorCount' = applyTransformationFunction(data, proc).errorCount
  /\ successCount' = applyTransformationFunction(data, proc).successCount
  /\ calls' = applyTransformationFunction(data, proc).calls
  /\ compiles' = applyTransformationFunction(data, proc).compiles
  /\ pc' = "writing"
  /\ UNCHANGED <<data, proc, metrics, joinVars, requestVars, laterVars>>

\* 149-172: the CSV file is written
WriteFile ==
  /\ pc = "writing"
  /\ \E ok \in BOOLEAN : pc' = IF ok THEN "creating" ELSE "failing"
  /\ UNCHANGED <<transformVars, joinVars, requestVars, laterVars>>

\* 175-184: await Dataset.create
CreateTransformedDataset ==
  /\ pc = "creating"
  /\ \E ok \in BOOLEAN : pc' = IF ok THEN "measuring" ELSE "failing"
  /\ UNCHANGED <<transformVars, joinVars, requestVars, laterVars>>

\* 187: calculateMetrics(transformedData, await readDatasetFile(targetTable))
MeasureAgainstTarget ==
  /\ pc = "measuring"
  /\ \E ok \in BOOLEAN :
       IF ok
         THEN metrics' = calculateMetrics(Arr(results), Arr(targetData)) /\ pc' = "storing"
         ELSE UNCHANGED metrics /\ pc' = "failing"
  /\ UNCHANGED <<data, proc, results, raised, errorCount, successCount, calls, compiles,
                 joinVars, requestVars, laterVars>>

\* 190-197: status = 'completed'; metrics = metrics; await save(); 200
SaveCompleted ==
  /\ pc = "storing"
  /\ status' = "completed"
  /\ \E ok \in BOOLEAN :
       IF ok
         THEN /\ stored' = [status |-> "completed", metrics |-> metrics]
              /\ response' = [status |-> 200, error |-> Undefined]
              /\ pc' = "done"
         ELSE UNCHANGED <<stored, response>> /\ pc' = "failing"
  /\ UNCHANGED <<transformVars, joinVars, req, datasets, io, runVars, stepVars>>

\* 198-207: status = 'failed'; await save(); 500.  When this save rejects the
\* handler ends there, with the stored document as it was
SaveFailed ==
  /\ pc = "failing"
  /\ status' = "failed"
  /\ \E ok \in BOOLEAN :
       IF ok
         THEN /\ stored' = [stored EXCEPT !.status = "failed"]
              /\ response' = [status |-> 500, error |-> Str("Error applying transformation")]
              /\ pc' = "failed"
         ELSE UNCHANGED <<stored, response>> /\ pc' = "rejected"
  /\ UNCHANGED <<transformVars, joinVars, req, datasets, io, runVars, stepVars>>

NextApply ==
  \/ FindById
  \/ UseFallback
  \/ SaveProcessing
  \/ ReadSource
  \/ TransformSource
  \/ WriteFile
  \/ CreateTransformedDataset
  \/ MeasureAgainstTarget
  \/ SaveCompleted
  \/ SaveFailed

SpecApply == InitApply /\ [][NextApply]_vars

----------------------------------------------------------------------------
(* Properties of applyTransformationFunction *)

Done == pc = "done"

\* the batch is a non-empty array
NonEmptyBatch == data.t = "array" /\ data.items # <<>>

\* transformRow was reached: the text passed the checks, compiled and ran
Compiled ==
  proc.isString /\ ~proc.blank /\ proc.declares /\ proc.parses /\ proc.top # "throws"

Thrown(i) == proc.beh[data.items[i]] = Throw

\* transformRow returned a record with at least one key for row i
ReturnedRecord(i) ==
  /\ ~Thrown(i)
  /\ proc.beh[data.items[i]].val.t = "object"
  /\ DOMAIN proc.beh[data.items[i]].val.f # {}

AllBlank(v) == \A k \in ObjectKeys(v) : Props(v)[k] = Str("")

\* C1: for a non-empty batch and any procedure text the call returns, without
\* raising, an array as long as the batch.
C1_LengthPreserved ==
  (Done /\ NonEmptyBatch) => (~raised /\ Len(results) = Len(data.items))

C1_Witness ==
  /\ Done /\ NonEmptyBatch /\ Compiled
  /\ Len(data.items) >= 2
  /\ \E i, j \in DOMAIN data.items :
       /\ Thrown(i)
       /\ ~Thrown(j) /\ proc.beh[data.items[j]].val = Undefined
  /\ Len(results) = Len(data.items)

AlwaysThrows ==
  /\ Done /\ NonEmptyBatch /\ Compiled /\ proc.top = "end"
  /\ \A i \in DOMAIN data.items : Thrown(i)

FirstKeyed(rows) ==
  LET keyed == {k \in 1..Min(TemplateProbe, Len(rows)) : ObjectKeys(rows[k]) # {}}
  IN IF keyed = {} THEN Obj(EmptyRow)
     ELSE rows[CHOOSE k \in keyed : \A j \in keyed : k <= j]

Malformed == ~proc.isString \/ proc.blank \/ ~proc.declares

\* C4 as stated: a malformed text makes the call raise, and no row is passed
\* to any procedure.
C4_MalformedRaises ==
  (Done /\ NonEmptyBatch /\ Malformed) => (raised /\ calls = 0)

\* C4 amended: a malformed text is not compiled and no row is passed to any
\* procedure, but the error is caught inside the call, which returns without
\* raising.
C4_MalformedAbsorbed ==
  (Done /\ NonEmptyBatch /\ Malformed) => (~raised /\ calls = 0 /\ compiles = 0)

C4_Witness ==
  /\ Done /\ NonEmptyBatch
  /\ proc.isString /\ ~proc.blank /\ ~proc.declares /\ proc.parses
  /\ \E r \in Rows : proc.beh[r] # Throw
  /\ ~raised /\ calls = 0

\* C5: when the text is malformed, does not compile or fails while it is
\* initialised, the call does not raise and returns the input rows, row for
\* row and field for field.
C5_OriginalRowsReturned ==
  (Done /\ NonEmptyBatch /\ (Malformed \/ ~proc.parses \/ proc.top = "throws")) =>
    (~raised /\ results = data.items)

C5_Witness ==
  /\ Done /\ NonEmptyBatch
  /\ ~Malformed /\ proc.parses /\ proc.top = "throws"
  /\ Len(data.items) >= 2
  /\ data.items[1] # data.items[2]
  /\ results = data.items

\* C6: a batch that is null, no array or empty gives the empty array, without
\* raising and without compiling or invoking the procedure.
C6_InvalidBatchEmpty ==
  (Done /\ (data \in {Null, Undefined} \/ data.t # "array" \/ data = Arr(<<>>))) =>
    (results = <<>> /\ ~raised /\ compiles = 0 /\ calls = 0)

C6_Witness ==
  /\ Done
  /\ data = Arr(<<>>)
  /\ Compiled
  /\ results = <<>>

\* the number of rows of the batch on which transformRow throws
ThrownRows == Cardinality({i \in DOMAIN data.items : Thrown(i)})

\* C7: every row whose transformRow call throws is counted as an error and
\* none of them as a success.
C7_ThrowsCounted ==
  (Done /\ NonEmptyBatch /\ Compiled) =>
    /\ errorCount >= ThrownRows
    /\ successCount <= Len(data.items) - ThrownRows

----------------------------------------------------------------------------
(* Properties of exactMatchJoin and fuzzyMatchJoin *)

ExactDone == pc = "done" /\ matchType = "exact"

\* the tag of the i-th joined record
Tag(i) == Get(joinedData[i], "__matchStatus")

\* the names the join writes itself
TagKeys == {"__matchStatus", "__matchScore"}

\* C8: in both modes matched + unmatched = totalTransformed, and joinedData
\* holds one record per transformed row, in the order of the transformed rows
\* (the i-th record carries the fields of the i-th transformed row).
C8_StatsConsistent ==
  Done =>
    /\ stats.matched + stats.unmatched = stats.totalTransformed
    /\ stats.totalTransformed = Len(transformedData)
    /\ DOMAIN joinedData = DOMAIN transformedData
    /\ \A i \in DOMAIN transformedData :
         \A k \in ObjectKeys(transformedData[i]) \ TagKeys :
           Get(joinedData[i], k) = Get(transformedData[i], k)

C8_Witness ==
  /\ Done
  /\ matchType = "fuzzy"
  /\ Len(transformedData) = 2
  /\ transformedData[1] # transformedData[2]
  /\ stats.matched = 1
  /\ stats.unmatched = 1
  /\ Tag(1) = Str("unmatched")
  /\ Tag(2) = Str("matched")

\* both rows have the column and hold the same value in it
SameValue(transformedRow, targetRow, col) ==
  /\ col \in ObjectKeys(transformedRow)
  /\ col \in ObjectKeys(targetRow)
  /\ Get(transformedRow, col) = Get(targetRow, col)

CellText(row, col) ==
  IF col \notin ObjectKeys(row) \/ Get(row, col) \in {Null, Undefined}
    THEN ""
    ELSE String(Get(row, col))

\* the texts of the first n match columns, separated by '|'
RECURSIVE KeyText(_, _, _)
KeyText(row, cols, n) ==
  IF n = 0 THEN ""
  ELSE IF n = 1 THEN CellText(row, cols[1])
  ELSE KeyText(row, cols, n - 1) \o "|" \o CellText(row, cols[n])

C10_FieldsKept ==
  ExactDone =>
    \A i \in DOMAIN transformedData :
      /\ \A k \in ObjectKeys(transformedData[i]) :
           Get(joinedData[i], k) = Get(transformedData[i], k)
      /\ IF Tag(i) = Str("matched")
           THEN \E j \in DOMAIN targetData :
                  /\ ObjectKeys(joinedData[i]) =
                       ObjectKeys(transformedData[i]) \cup ObjectKeys(targetData[j])
                         \cup {"__matchStatus"}
                  /\ \A k \in ObjectKeys(targetData[j]) \ ObjectKeys(transformedData[i]) :
                       Get(joinedData[i], k) = Get(targetData[j], k)
           ELSE /\ Tag(i) = Str("unmatched")
                /\ ObjectKeys(joinedData[i]) =
                     ObjectKeys(transformedData[i]) \cup {"__matchStatus"}

\* C10 amended: as stated for every field other than __matchStatus; the tag
\* takes the place of a field of that name in the transformed or the target
\* row.
C10_FieldsKeptButTag ==
  ExactDone =>
    \A i \in DOMAIN transformedData :
      /\ \A k \in ObjectKeys(transformedData[i]) \ {"__matchStatus"} :
           Get(joinedData[i], k) = Get(transformedData[i], k)
      /\ IF Tag(i) = Str("matched")
           THEN \E j \in DOMAIN targetData :
                  /\ ObjectKeys(joinedData[i]) =
                       ObjectKeys(transformedData[i]) \cup ObjectKeys(targetData[j])
                         \cup {"__matchStatus"}
                  /\ \A k \in (ObjectKeys(targetData[j]) \ ObjectKeys(transformedData[i]))
                                \ {"__matchStatus"} :
                       Get(joinedData[i], k) = Get(targetData[j], k)
           ELSE /\ Tag(i) = Str("unmatched")
                /\ ObjectKeys(joinedData[i]) =
                     ObjectKeys(transformedData[i]) \cup {"__matchStatus"}

C10_Witness ==
  /\ ExactDone
  /\ Len(transformedData) = 2
  /\ transformedData[1] = Obj(("id" :> Num(1)) @@ ("w" :> Num(9)))
  /\ Tag(1) = Str("matched")
  /\ Get(joinedData[1], "w") = Num(9)
  /\ transformedData[2] = Obj(("id" :> Str("A")) @@ ("v" :> Num(1)))
  /\ Tag(2) = Str("unmatched")
  /\ ObjectKeys(joinedData[2]) = {"id", "v", "__matchStatus"}

\* C16: in both modes matchRate is matched divided by totalTransformed, and is
\* the number 0 when there is no transformed row.
C16_MatchRate ==
  Done =>
    IF Len(transformedData) = 0
      THEN stats.matchRate = Num(0)
      ELSE /\ stats.matchRate.t = "number"
           /\ stats.matchRate.d > 0
           /\ stats.matchRate.n * stats.totalTransformed
                = stats.matched * stats.matchRate.d

C16_Witness ==
  /\ Done
  /\ matchType = "fuzzy"
  /\ Len(transformedData) = 0
  /\ Len(targetData) = 2
  /\ stats.totalTransformed = 0
  /\ stats.matchRate = Num(0)

\* the target rows with the concatenated key of the i-th transformed row
SameKeyTargets(i) ==
  {j \in DOMAIN targetData :
     KeyText(targetData[j], matchColumns, Len(matchColumns))
       = KeyText(transformedData[i], matchColumns, Len(matchColumns))}

\* the last of them in target order
LastSameKeyTarget(i) ==
  CHOOSE j \in SameKeyTargets(i) : \A k \in SameKeyTargets(i) : k <= j

\* C11: in exact mode, when several target rows share a concatenated key, a
\* transformed row with that key is joined to the last of them in target
\* order: the fields it gains are that row's fields.
C11_LastWriterWins ==
  ExactDone =>
    \A i \in DOMAIN transformedData :
      SameKeyTargets(i) # {} =>
        /\ Tag(i) = Str("matched")
        /\ ObjectKeys(joinedData[i]) =
             ObjectKeys(transformedData[i])
               \cup ObjectKeys(targetData[LastSameKeyTarget(i)])
               \cup {"__matchStatus"}
        /\ \A k \in (ObjectKeys(targetData[LastSameKeyTarget(i)])
                       \ ObjectKeys(transformedData[i])) \ {"__matchStatus"} :
             Get(joinedData[i], k) = Get(targetData[LastSameKeyTarget(i)], k)

C11_Witness ==
  /\ ExactDone
  /\ matchColumns = <<"id">>
  /\ transformedData = <<Obj(("id" :> Str("A")) @@ ("v" :> Num(1)))>>
  /\ targetData = <<Obj(("id" :> Str("A")) @@ ("w" :> Num(3))),
                    Obj(("id" :> Str("A")) @@ ("w" :> Num(2)))>>
  /\ Get(joinedData[1], "w") = Num(2)

----------------------------------------------------------------------------
(* Properties of fuzzyMatchJoin *)

FuzzyDone == pc = "done" /\ matchType # "exact"

\* the row-pair scores of the i-th transformed row against the target rows
ScoresOf(i) ==
  {NormalizedScore(transformedData[i], targetData[j], matchColumns) :
     j \in DOMAIN targetData}

\* the best of them, 0 when there is no target row
BestScoreOf(i) ==
  IF ScoresOf(i) = {} THEN Num(0)
  ELSE CHOOSE s \in ScoresOf(i) : \A u \in ScoresOf(i) : AtLeast(s, u)

\* the threshold of the request: the supplied one, 0.7 when none is supplied
RequestedThreshold ==
  IF fuzzyOptions.threshold = Undefined THEN Frac(7, 10) ELSE fuzzyOptions.threshold

\* C12: in fuzzy mode a transformed row is tagged matched only if its best
\* row-pair score is at least the threshold given in fuzzyOptions, 0.7 being
\* used only when no threshold is supplied.
C12_SuppliedThreshold ==
  FuzzyDone =>
    \A i \in DOMAIN transformedData :
      Tag(i) = Str("matched") => AtLeast(BestScoreOf(i), RequestedThreshold)

MaxScoreTargets(i) ==
  {j \in DOMAIN targetData :
     NormalizedScore(transformedData[i], targetData[j], matchColumns) = BestScoreOf(i)}

\* the first of them in target order
FirstMaxScoreTarget(i) ==
  CHOOSE j \in MaxScoreTargets(i) : \A k \in MaxScoreTargets(i) : j <= k

\* C14: in fuzzy mode the target row joined to a matched transformed row has
\* the maximum row-pair score among all target rows and, among the rows tied
\* at that maximum, is the first in target order: the record gains that
\* row's fields.
C14_FirstMaximum ==
  FuzzyDone =>
    \A i \in DOMAIN transformedData :
      Tag(i) = Str("matched") =>
        /\ MaxScoreTargets(i) # {}
        /\ ObjectKeys(joinedData[i]) =
             ObjectKeys(transformedData[i])
               \cup ObjectKeys(targetData[FirstMaxScoreTarget(i)]) \cup TagKeys
        /\ \A k \in (ObjectKeys(targetData[FirstMaxScoreTarget(i)])
                       \ ObjectKeys(transformedData[i])) \ TagKeys :
             Get(joinedData[i], k) = Get(targetData[FirstMaxScoreTarget(i)], k)

C14_Witness ==
  /\ FuzzyDone
  /\ matchColumns = <<"id">>
  /\ transformedData = <<Obj("id" :> Str("abcd")), Obj("id" :> Str("ABCDEFG"))>>
  /\ targetData = <<Obj(("id" :> Str("abcde")) @@ ("w" :> Num(3))),
                    Obj(("id" :> Str("abcde")) @@ ("w" :> Num(2)))>>
  /\ Cardinality(MaxScoreTargets(1)) = 2
  /\ Get(joinedData[1], "w") = Num(3)
  /\ Get(joinedData[2], "w") = Num(3)

\* the score of the i-th joined record
Score(i) == Get(joinedData[i], "__matchScore")

----------------------------------------------------------------------------
(* Properties of joinDatasets *)

\* the request names no match column: matchColumns is missing, is not a
\* list, or is an empty list
NoMatchColumns ==
  \/ req.matchColumns \in {Undefined, Null}
  \/ req.matchColumns.t # "array"
  \/ req.matchColumns.items = <<>>

\* C17: a join request whose matchColumns is missing, not a list or empty
\* fails with an error, and no dataset has been looked up or read, no row
\* transformed or joined, and no joined dataset written or stored.
C17_NoMatchColumnsFailsFirst ==
  (pc # "ready" /\ NoMatchColumns) =>
    /\ pc = "failed"
    /\ response.error # Undefined
    /\ response.status \notin {0, 200}
    /\ io = NoEffects
    /\ data = Null
    /\ transformedData = <<>>
    /\ joinedData = <<>>
    /\ "joined" \notin datasets

C17_Witness ==
  /\ pc = "failed"
  /\ req.sourceDatasetId = Str("s")
  /\ req.targetDatasetId = Str("t")
  /\ req.transformationFunction = WellFormed([r \in Rows |-> Return(r)])
  /\ req.matchColumns = Arr(<<>>)
  /\ datasets = {"s", "t"}
  /\ response.error = Str("Error joining datasets: Please provide at least one match column")
  /\ io = NoEffects

----------------------------------------------------------------------------
(* Properties of calculateMetrics *)

\* C18: if the transformed or the target sequence is empty, calculateMetrics
\* returns precision = recall = f1Score = editDistance = 0.
C18_EmptyGivesZero ==
  (Done /\ (Len(transformedData) = 0 \/ Len(targetData) = 0)) =>
    /\ metrics.precision = Num(0)
    /\ metrics.recall = Num(0)
    /\ metrics.f1Score = Num(0)
    /\ metrics.editDistance = Num(0)

C18_Witness ==
  /\ Done
  /\ Len(transformedData) = 0
  /\ Len(targetData) = 2
  /\ "a" \in ObjectKeys(targetData[1])
  /\ metrics = ZeroMetrics

\* C19: for every non-empty sequence rows, rows without keys included,
\* calculateMetrics(rows, rows) has precision = recall = f1Score = 1 and
\* editDistance = 0.
C19_RoundTrip ==
  (Done /\ Len(transformedData) > 0 /\ targetData = transformedData) =>
    /\ metrics.precision = Num(1)
    /\ metrics.recall = Num(1)
    /\ metrics.f1Score = Num(1)
    /\ metrics.editDistance = Num(0)

\* the index pairs that are compared
PairIndices == 1 .. Min(Len(transformedData), Len(targetData))

\* the keys of the i-th pair
UnionKeys(i) == ObjectKeys(transformedData[i]) \cup ObjectKeys(targetData[i])

\* the sum of f over the set S
RECURSIVE SumOver(_, _)
SumOver(f, S) ==
  IF S = {} THEN 0
  ELSE f[CHOOSE x \in S : TRUE] + SumOver(f, S \ {CHOOSE x \in S : TRUE})

\* a value as text, as String gives it; a missing value has the empty text
PlainText(v) == IF v = Undefined THEN "" ELSE String(v)

\* a value as text, a falsy value (a missing one, null, 0, the empty text)
\* being the empty text
FalsyEmptyText(v) ==
  IF v \in {Undefined, Null, Num(0), Str("")} THEN "" ELSE String(v)

TotalFieldsOf == SumOver([i \in PairIndices |-> Cardinality(UnionKeys(i))], PairIndices)

PlainMatches ==
  SumOver([i \in PairIndices |->
             Cardinality({k \in UnionKeys(i) :
                            PlainText(Get(transformedData[i], k))
                              = PlainText(Get(targetData[i], k))})],
          PairIndices)

PlainDistance ==
  SumOver([i \in PairIndices |->
             SumOver([k \in UnionKeys(i) |->
                        Abs(Len(PlainText(Get(transformedData[i], k)))
                              - Len(PlainText(Get(targetData[i], k))))],
                     UnionKeys(i))],
          PairIndices)

FalsyEmptyMatches ==
  SumOver([i \in PairIndices |->
             Cardinality({k \in UnionKeys(i) :
                            FalsyEmptyText(Get(transformedData[i], k))
                              = FalsyEmptyText(Get(targetData[i], k))})],
          PairIndices)

FalsyEmptyDistance ==
  SumOver([i \in PairIndices |->
             SumOver([k \in UnionKeys(i) |->
                        Abs(Len(FalsyEmptyText(Get(transformedData[i], k)))
                              - Len(FalsyEmptyText(Get(targetData[i], k))))],
                     UnionKeys(i))],
          PairIndices)

\* precision = recall = f1Score = the ratio, and editDistance = distance
MetricsAre(ratio, distance) ==
  /\ metrics.precision = ratio
  /\ metrics.recall = ratio
  /\ metrics.f1Score = ratio
  /\ metrics.editDistance = Num(distance)

NonEmptyInputs == Done /\ Len(transformedData) > 0 /\ Len(targetData) > 0

\* C20 as stated: for non-empty inputs the rows are paired by position over
\* the first min(len) indices; totalFields is the sum of the sizes of the key
\* unions, matches counts the keys whose values are equal as text, the three
\* scores are matches / totalFields and editDistance is the sum of the
\* differences of the lengths of the values as text.
C20_StringifiedValues ==
  NonEmptyInputs =>
    IF TotalFieldsOf = 0
      THEN MetricsAre(NaN, PlainDistance)
      ELSE MetricsAre(Frac(PlainMatches, TotalFieldsOf), PlainDistance)

\* C20 amended: as stated, where the text of a value is the empty text for a
\* missing, null, 0 or empty value and its string form otherwise, and where
\* the scores are not a number when totalFields is 0; the rows beyond the
\* shorter length do not affect the result.
C20_FalsyEmptyValues ==
  NonEmptyInputs =>
    /\ IF TotalFieldsOf = 0
         THEN MetricsAre(NaN, FalsyEmptyDistance)
         ELSE MetricsAre(Frac(FalsyEmptyMatches, TotalFieldsOf), FalsyEmptyDistance)
    /\ metrics = calculateMetrics(Arr(SubSeq(transformedData, 1, Cardinality(PairIndices))),
                                  Arr(SubSeq(targetData, 1, Cardinality(PairIndices))))

C20_Witness ==
  /\ NonEmptyInputs
  /\ Len(transformedData) = 2
  /\ Len(targetData) = 1
  /\ transformedData[1] = Obj(("a" :> Str("x")) @@ ("b" :> Num(7)))
  /\ targetData[1] = Obj("a" :> Str("x"))
  /\ MetricsAre(Frac(1, 2), 1)

----------------------------------------------------------------------------
(* Properties of repeated invocations *)

Twice == pc = "twice"

C23_Isolated ==
  /\ pc # "ready" => first.after = first.before
  /\ Twice => results = first.results

\* C22: whatever transformRow does on a row, the batch comes to its end.
C22_BatchTerminates == <>(pc = "done")

----------------------------------------------------------------------------
(* Properties of the results row by row *)

\* the text declares transformRow and ends there: the wrapper of
\* part_001:231-315 is what runs
Wrapped == Done /\ NonEmptyBatch /\ Compiled /\ proc.top = "end"

Returned(i) == proc.beh[data.items[i]].val

ReturnedScalar(i) ==
  ~Thrown(i) /\ Returned(i).t \in {"number", "string", "boolean"}

\* C24: a row for which transformRow returns a string, number or boolean,
\* falsy ones included, is emitted as the record { value: that scalar }.
C24_ScalarWrapped ==
  Wrapped =>
    /\ DOMAIN results = DOMAIN data.items
    /\ \A i \in DOMAIN data.items :
         ReturnedScalar(i) => results[i] = Obj("value" :> Returned(i))

\* transformRow returned null, undefined or a record without keys for row i
ReturnedNothing(i) ==
  ~Thrown(i) /\ Returned(i) \in {Undefined, Null, Obj(EmptyRow)}

\* transformRow returned for row i and its result made a record with keys
Succeeded(i) == ~Thrown(i) /\ NonEmptyObject(ValidatedResult(Returned(i)))

FirstSucceeded ==
  CHOOSE j \in DOMAIN data.items :
    Succeeded(j) /\ \A k \in DOMAIN data.items : Succeeded(k) => j <= k

\* the keys of the first successfully transformed row, else those of the
\* input row, else none
FallbackChainKeys(i) ==
  IF \E j \in DOMAIN data.items : Succeeded(j)
    THEN ObjectKeys(ValidatedResult(Returned(FirstSucceeded)))
    ELSE ObjectKeys(data.items[i])

\* C25: a row for which transformRow returns null, undefined or a record
\* without keys is emitted as the blanked record of the fallback chain, and
\* counts as one error.
C25_InvalidResultFallback ==
  Wrapped =>
    /\ DOMAIN results = DOMAIN data.items
    /\ \A i \in DOMAIN data.items :
         ReturnedNothing(i) => results[i] = Obj(Blanked(FallbackChainKeys(i)))
    /\ (\A i \in DOMAIN data.items : ReturnedNothing(i)) =>
         errorCount = Len(data.items)

\* the rows before row i that transformed successfully
SucceededBefore(i) == {j \in DOMAIN data.items : j < i /\ Succeeded(j)}

FirstSucceededBefore(i) ==
  CHOOSE j \in SucceededBefore(i) : \A k \in SucceededBefore(i) : j <= k

\* C26: a row on which transformRow throws is emitted with the keys of the
\* output of the first row that succeeded before it, and with the keys of its
\* own input row only when no row succeeded before it; all values are blank
\* (here for the input rows that have a key).
C26_FirstSuccessShape ==
  Wrapped =>
    /\ DOMAIN results = DOMAIN data.items
    /\ \A i \in DOMAIN data.items :
         (Thrown(i) /\ ObjectKeys(data.items[i]) # {}) =>
           results[i] =
             IF SucceededBefore(i) # {}
               THEN Obj(Blanked(ObjectKeys(ValidatedResult(Returned(FirstSucceededBefore(i))))))
               ELSE Obj(Blanked(ObjectKeys(data.items[i])))

\* C27: after a transform of a non-empty batch with a text that declares
\* transformRow and compiles, every row has been counted once, as a success
\* or as an error.
C27_CountersPartition ==
  (Done /\ NonEmptyBatch /\ Compiled /\ proc.top \in {"end", "returns"}) =>
    successCount + errorCount = Len(data.items)

\* C28: one invocation compiles the text once and calls transformRow once for
\* each row of the batch, whatever the rows' outcomes.
C28_OneCallPerRow ==
  Wrapped => (compiles = 1 /\ calls = Len(data.items))

----------------------------------------------------------------------------
(* Properties of the two transformers together *)

\* C29: for the same rows and the same text, a text that declares
\* transformRow, the two transformers emit the same rows.
C29_SameRows == pc = "both" => results = transformedData

----------------------------------------------------------------------------
(* Properties of the apply request *)

\* the handler has ended
Finished == pc \in {"done", "failed", "rejected"}

\* C30: however the request ends, the stored status is not left at
\* 'processing', and 'completed' is stored together with the metrics.
C30_NeverLeftProcessing ==
  Finished =>
    /\ stored.status # "processing"
    /\ stored.status = "completed" => stored.metrics = metrics /\ metrics # <<>>

====
